---- MODULE Spec2Model ----
(***************************************************************************)
(* Lifecycle controller of the modal dialog (src/src/SweetAlert.js):       *)
(* the constructor and _main (eviction of the previous instance, install,  *)
(* timer clearing), swalPromise (registration of resolve/reject and the    *)
(* dismissWith closure, openPopup, setupTimer, initFocus), prepareParams,  *)
(* initFocus with focusAutofocus and focusButton, the instance methods     *)
(* assigned to the prototype and the static proxy.                         *)
(*                                                                         *)
(* The collaborators that SweetAlert.js imports (instanceMethods.close,    *)
(* _destroy, rejectPromise and update, the button handlers, Timer,         *)
(* defaultParams, getTemplateParams) are not part of the source tree;      *)
(* they are modelled from the specification and are marked so in the       *)
(* model map.                                                              *)
(***************************************************************************)
EXTENDS Integers, Sequences, FiniteSets, TLC

\* ------------------------------------------------------------------ bounds
MaxInst == 2
MaxTimer == 2

\* MaxInst instances are constructed by the application; one more can be
\* constructed by a callback that runs inside an open call.
InstIds == 1..(MaxInst + 1)
NoInst == 0

\* ------------------------------------------------------- option objects
\* A JavaScript option object is a record over Keys; a field is <<>> when the
\* object has no such own property and <<v>> when it has it with value v.
Absent == <<>>
Keys == {"a", "b", "c", "animation", "showClass", "hideClass", "timer", "timerProgressBar", "template",
         "toast", "allowEnterKey", "focusConfirm", "focusDeny", "focusCancel"}
ClassKeys == {"popup", "backdrop", "icon"}

EmptyObject == [k \in Keys |-> Absent]
EmptyClass == [k \in ClassKeys |-> Absent]

\* Object.assign(target, source) over the keys ks: every own property of the
\* source overwrites the target's.
ObjectAssign(ks, target, source) ==
  [k \in ks |-> IF source[k] # Absent THEN source[k] ELSE target[k]]

\* Built-in defaults (utils/params.js).  The option keys a and b stand for
\* options that have a default, c for one that has none.
defaultShowClass ==
  [popup |-> <<"swal2-show">>, backdrop |-> <<"swal2-backdrop-show">>, icon |-> <<"swal2-icon-show">>]
defaultHideClass ==
  [popup |-> <<"swal2-hide">>, backdrop |-> <<"swal2-backdrop-hide">>, icon |-> <<"swal2-icon-hide">>]
defaultParams ==
  [EmptyObject EXCEPT !.a = <<1>>, !.b = <<1>>, !.animation = <<"true">>,
                      !.showClass = <<defaultShowClass>>, !.hideClass = <<defaultHideClass>>,
                      !.timerProgressBar = <<FALSE>>,
                      !.toast = <<FALSE>>, !.allowEnterKey = <<<<"value", TRUE>>>>,
                      !.focusConfirm = <<TRUE>>, !.focusDeny = <<FALSE>>, !.focusCancel = <<FALSE>>]

\* The class sub-object held by a showClass/hideClass property, {} when the
\* property is missing (Object.assign skips an undefined source).
ClassObject(v) == IF v = Absent THEN EmptyClass ELSE v[1]

\* getTemplateParams(userParams): the options declared by the markup template
\* that userParams.template names, {} when there is none.
getTemplateParams(userParams) ==
  IF userParams.template = Absent THEN EmptyObject ELSE userParams.template[1]

\* params.animation === false
AnimationIsFalse(params) == params.animation = <<"false">>

NoAnimationShowClass == [EmptyClass EXCEPT !.backdrop = <<"swal2-noanimation">>]

\* Mutant: tests the flag for falsiness instead of strict equality with false.
prepareParams_Falsy(userParams, mixinParams) ==
  LET templateParams == getTemplateParams(userParams)
      merged == ObjectAssign(Keys, ObjectAssign(Keys, ObjectAssign(Keys, defaultParams, mixinParams),
                                                templateParams), userParams)
      show == ObjectAssign(ClassKeys, defaultShowClass, ClassObject(merged.showClass))
      hide == ObjectAssign(ClassKeys, defaultHideClass, ClassObject(merged.hideClass))
  IN IF merged.animation \in {Absent, <<"false">>, <<"0">>}
       THEN [merged EXCEPT !.showClass = <<NoAnimationShowClass>>, !.hideClass = <<EmptyClass>>]
       ELSE [merged EXCEPT !.showClass = <<show>>, !.hideClass = <<hide>>]

\* Mutant: the declarative (template) parameters are merged last.
prepareParams_TemplateLast(userParams, mixinParams) ==
  LET templateParams == getTemplateParams(userParams)
      merged == ObjectAssign(Keys, ObjectAssign(Keys, ObjectAssign(Keys, defaultParams, mixinParams),
                                                userParams), templateParams)
      show == ObjectAssign(ClassKeys, defaultShowClass, ClassObject(merged.showClass))
      hide == ObjectAssign(ClassKeys, defaultHideClass, ClassObject(merged.hideClass))
  IN IF AnimationIsFalse(merged)
       THEN [merged EXCEPT !.showClass = <<NoAnimationShowClass>>, !.hideClass = <<EmptyClass>>]
       ELSE [merged EXCEPT !.showClass = <<show>>, !.hideClass = <<hide>>]

\* prepareParams
prepareParams(userParams, mixinParams) ==
  LET templateParams == getTemplateParams(userParams)
      merged == ObjectAssign(Keys, ObjectAssign(Keys, ObjectAssign(Keys, defaultParams, mixinParams),
                                                templateParams), userParams)
      show == ObjectAssign(ClassKeys, defaultShowClass, ClassObject(merged.showClass))
      hide == ObjectAssign(ClassKeys, defaultHideClass, ClassObject(merged.hideClass))
  IN IF AnimationIsFalse(merged)
       THEN [merged EXCEPT !.showClass = <<NoAnimationShowClass>>, !.hideClass = <<EmptyClass>>]
       ELSE [merged EXCEPT !.showClass = <<show>>, !.hideClass = <<hide>>]


\* A JavaScript value used as a condition: undefined and 0 are falsy
\* (if (innerParams.timer)), undefined and false are falsy
\* (if (innerParams.timerProgressBar)).
TruthyNumber(v) == v # Absent /\ v[1] # 0
TruthyBoolean(v) == v # Absent /\ v[1]

\* ------------------------------------------------- focus (initFocus)
\* The options that initFocus reads from the effective configuration: toast,
\* focusDeny, focusCancel, focusConfirm hold booleans; allowEnterKey holds
\* <<"value", b>>, the boolean b, or <<"function", b>>, a predicate that returns b.
\* The rendered dialog as initFocus sees it: autofocus lists the [autofocus]
\* elements of the popup in document order, TRUE for a visible one; denyButton,
\* cancelButton, confirmButton tell whether that button is visible; focusable
\* whether the dialog has a focusable element; active whether
\* document.activeElement is an element that can be blurred.
\* The effect of initFocus: the elements focused, in order; whether the active
\* element was blurred; whether the deprecation warning was given; whether
\* setFocus(-1, 1) was called.
NoFocusEffect == [calls |-> <<>>, blurred |-> FALSE, warned |-> FALSE, setFocus |-> FALSE]

\* element.focus()
focus(f, el) == [f EXCEPT !.calls = Append(@, el)]

\* callIfFunction(arg) (utils/utils.js): the result of the call for a function,
\* the value itself otherwise.
callIfFunction(arg) == arg[2]

\* setFocus(-1, 1) (keydown-handler.js): focuses the first focusable element of
\* the dialog, nothing when there is none.
setFocusFirst(f, domCache) ==
  LET f1 == [f EXCEPT !.setFocus = TRUE]
  IN IF domCache.focusable THEN focus(f1, <<"focusable", 1>>) ELSE f1

\* blurActiveElement()
blurActiveElement(f, domCache) ==
  IF domCache.active THEN [f EXCEPT !.blurred = TRUE] ELSE f

\* dom.isVisible of the k-th [autofocus] element
VisibleAutofocus(domCache) == {k \in 1..Len(domCache.autofocus) : domCache.autofocus[k]}

FirstOf(S) == CHOOSE k \in S : \A j \in S : k <= j
LastOf(S) == CHOOSE k \in S : \A j \in S : k >= j

\* Mutant: the last visible [autofocus] element is focused.
focusAutofocus_Last(f, domCache) ==
  IF VisibleAutofocus(domCache) # {}
    THEN [done |-> TRUE, f |-> focus(f, <<"autofocus", LastOf(VisibleAutofocus(domCache))>>)]
    ELSE [done |-> FALSE, f |-> f]

\* focusAutofocus(domCache): the loop returns at the first visible element.
focusAutofocus(f, domCache) ==
  IF VisibleAutofocus(domCache) # {}
    THEN [done |-> TRUE, f |-> focus(f, <<"autofocus", FirstOf(VisibleAutofocus(domCache))>>)]
    ELSE [done |-> FALSE, f |-> f]

\* focusButton(domCache, innerParams)
focusButton(f, domCache, innerParams) ==
  IF TruthyBoolean(innerParams.focusDeny) /\ domCache.denyButton
    THEN [done |-> TRUE, f |-> focus(f, <<"denyButton", 0>>)]
  ELSE IF TruthyBoolean(innerParams.focusCancel) /\ domCache.cancelButton
    THEN [done |-> TRUE, f |-> focus(f, <<"cancelButton", 0>>)]
  ELSE IF TruthyBoolean(innerParams.focusConfirm) /\ domCache.confirmButton
    THEN [done |-> TRUE, f |-> focus(f, <<"confirmButton", 0>>)]
  ELSE [done |-> FALSE, f |-> f]

\* callIfFunction(innerParams.allowEnterKey) as a condition: undefined is falsy.
AllowsEnterKey(innerParams) ==
  innerParams.allowEnterKey # Absent /\ callIfFunction(innerParams.allowEnterKey[1])

\* Mutant: the [autofocus] elements are tried before allowEnterKey is looked at.
initFocus_AutofocusFirst(domCache, innerParams) ==
  LET f0 == NoFocusEffect
  IN IF TruthyBoolean(innerParams.toast) THEN f0
     ELSE IF focusAutofocus(f0, domCache).done THEN focusAutofocus(f0, domCache).f
     ELSE IF ~AllowsEnterKey(innerParams)
       THEN blurActiveElement([f0 EXCEPT !.warned = TRUE], domCache)
     ELSE IF focusButton(f0, domCache, innerParams).done
       THEN focusButton(f0, domCache, innerParams).f
     ELSE setFocusFirst(f0, domCache)

\* initFocus(domCache, innerParams)
initFocus(domCache, innerParams) ==
  LET f0 == NoFocusEffect
  IN IF TruthyBoolean(innerParams.toast) THEN f0
     ELSE IF ~AllowsEnterKey(innerParams)
       THEN blurActiveElement([f0 EXCEPT !.warned = TRUE], domCache)   \* warnAboutDeprecation
     ELSE IF focusAutofocus(f0, domCache).done THEN focusAutofocus(f0, domCache).f
     ELSE IF focusButton(f0, domCache, innerParams).done
       THEN focusButton(f0, domCache, innerParams).f
     ELSE setFocusFirst(f0, domCache)


\* ------------------------------------------------------------------ state
VARIABLES
  currentInstance,        \* the module-level  let currentInstance
  gsCurrent,              \* globalState.currentInstance
  gsTimeout,              \* globalState.timeout: the Timer in the slot, named by its instance
  gsRestoreFocusTimeout,  \* globalState.restoreFocusTimeout: handle of the last scheduled restoration
  life,                   \* per instance: "new", "open", "closed", "destroyed"
  isAwaitingPromise,      \* per instance: this.isAwaitingPromise
  resolveFn,              \* per instance: privateMethods.swalPromiseResolve/Reject hold an entry
  result,                 \* per instance: state of the promise, "pending" or the settled value
  promiseOf,              \* per instance: the instance whose promise its registered resolve/reject settle
  settleCalls,            \* per instance: number of calls of resolve/reject (saturates at 2)
  timer,                  \* per instance: state of the Timer created for it
  remaining,              \* per instance: time left on its Timer
  fireCount,              \* per instance: number of runs of its Timer callback (saturates at 2)
  privInnerParams,        \* per instance: privateProps.innerParams
  pendingRestore,         \* scheduled focus restorations that have not run
  pendingProgress,        \* per instance: duration captured by its deferred progress-bar callback, 0 if none
  animated,               \* last progress-bar animation started: <<instance, duration>>
  log,                    \* the steps of the last open call, in execution order
  nOpened,                \* number of instances constructed
  due,                    \* per instance: time still to elapse until its timer option has elapsed
  early,                  \* per instance: its Timer callback ran before that time had elapsed
  quiet,                  \* the instance opened last, while only time has passed since; else NoInst
  streak,                 \* number of open calls made in a row, with no other event since
  facade,                 \* the static proxy call made by the last step: NoCall, NoInst (null) or the instance forwarded to
  pUser, pMixin, pOut,    \* prepareParams: its arguments and its result
  fParams,                \* the focus options that the application gives to the constructor
  fDom,                   \* the dialog as rendered: what populateDomCache and the DOM queries find
  fOut                    \* the effect of initFocus in the last open call, Absent before the first

vars == <<currentInstance, gsCurrent, gsTimeout, gsRestoreFocusTimeout, life, isAwaitingPromise,
          resolveFn, result, promiseOf, settleCalls, timer, remaining, fireCount, privInnerParams, pendingRestore,
          pendingProgress, animated, log, nOpened, due, early, quiet, streak, facade, pUser, pMixin, pOut,
          fParams, fDom, fOut>>

lifecycleVars == <<currentInstance, gsCurrent, gsTimeout, gsRestoreFocusTimeout, life,
          isAwaitingPromise, resolveFn, result, promiseOf, settleCalls, timer, remaining, fireCount,
          privInnerParams, pendingRestore, pendingProgress, animated, log, nOpened, due, early, quiet,
          streak, facade, fOut>>

prepVars == <<pUser, pMixin, pOut>>

focusVars == <<fParams, fDom>>

\* No static proxy call was made by the step.
NoCall == 0 - 1

\* DismissReason (utils/DismissReason.js)
DismissReason == {"cancel", "backdrop", "close", "esc", "timer"}

\* The program state handled by the code below, as one record; the field
\* thrown is set when a statement throws and the rest of the handler is skipped.
St ==
  [currentInstance |-> currentInstance, gsCurrent |-> gsCurrent, gsTimeout |-> gsTimeout,
   gsRestoreFocusTimeout |-> gsRestoreFocusTimeout, life |-> life,
   isAwaitingPromise |-> isAwaitingPromise, resolveFn |-> resolveFn, result |-> result,
   promiseOf |-> promiseOf,
   settleCalls |-> settleCalls, timer |-> timer, remaining |-> remaining,
   fireCount |-> fireCount, innerParams |-> privInnerParams, pendingRestore |-> pendingRestore,
   pendingProgress |-> pendingProgress, animated |-> animated, log |-> <<>>, thrown |-> FALSE,
   facade |-> NoCall, dom |-> fDom, focus |-> fOut]

Commit(s) ==
  /\ currentInstance' = s.currentInstance
  /\ gsCurrent' = s.gsCurrent
  /\ gsTimeout' = s.gsTimeout
  /\ gsRestoreFocusTimeout' = s.gsRestoreFocusTimeout
  /\ life' = s.life
  /\ isAwaitingPromise' = s.isAwaitingPromise
  /\ resolveFn' = s.resolveFn
  /\ result' = s.result
  /\ promiseOf' = s.promiseOf
  /\ settleCalls' = s.settleCalls
  /\ timer' = s.timer
  /\ remaining' = s.remaining
  /\ fireCount' = s.fireCount
  /\ privInnerParams' = s.innerParams
  /\ pendingRestore' = s.pendingRestore
  /\ pendingProgress' = s.pendingProgress
  /\ animated' = s.animated
  /\ facade' = s.facade
  /\ fOut' = s.focus

Logged(s, op, i) == [s EXCEPT !.log = Append(@, <<op, i>>)]

\* ------------------------------------------------- the promise of an instance
\* Calling the resolve or reject function of  new Promise((resolve, reject) => ...):
\* the first call settles the promise, a later call leaves it as it is.
\* The functions registered for instance i belong to the promise of promiseOf[i].
settlePromise(s, i, v) ==
  Logged([s EXCEPT !.result[s.promiseOf[i]] = IF @ = "pending" THEN v ELSE @,
                   !.settleCalls[s.promiseOf[i]] = IF @ < 2 THEN @ + 1 ELSE @], "settle", i)

\* A call of the value read from privateMethods.swalPromiseResolve: fn is FALSE
\* when the map had no entry, and calling undefined throws.
callResolve(s, fn, i, v) ==
  IF fn THEN settlePromise(s, i, v) ELSE [s EXCEPT !.thrown = TRUE]

\* ------------------------------------------------------------------ Timer
TimerLive(s, t) == s.timer[t] \in {"running", "paused"}

\* new Timer(callback, delay): starts running at once.
timerNew(s, t, delay) ==
  Logged([s EXCEPT !.timer[t] = "running", !.remaining[t] = delay], "arm", t)

\* Timer.stop(): terminal, the callback never fires; no effect once fired or stopped.
timerStop(s, t) ==
  IF TimerLive(s, t)
    THEN Logged([s EXCEPT !.timer[t] = "stopped", !.remaining[t] = 0], "stop", t)
    ELSE s

\* ------------------------------------------------- instance methods
\* _destroy(): detaches the instance, also from the registry when it is the
\* current one.  The registered resolve/reject functions are kept while an
\* action is awaited, which is then the one to settle.  An instance that has no
\* stored configuration left was closed or destroyed before: no effect.
_destroy(s, i) ==
  IF s.innerParams[i] = Absent
    THEN s
    ELSE Logged([s EXCEPT !.life[i] = "destroyed",
                          !.innerParams[i] = Absent,
                          !.resolveFn[i] = IF s.isAwaitingPromise[i] THEN @ ELSE FALSE,
                          !.gsCurrent = IF @ = i THEN NoInst ELSE @], "destroy", i)

\* update(params): merges the given options into the stored effective
\* configuration of an instance that is being shown; the identity of the
\* instance and its result are left alone.  No effect once closed or destroyed.
update(s, i, params) ==
  IF s.innerParams[i] = Absent
    THEN s
    ELSE [s EXCEPT !.innerParams[i] = <<ObjectAssign(Keys, @[1], params)>>]

\* close(resolveValue)
close(s, i, res) ==
  IF ~s.resolveFn[i] \/ s.life[i] \notin {"open", "destroyed"}
    THEN s                                     \* closed before, or destroyed: no effect
    ELSE
      LET s1 == IF s.result[i] = "pending" THEN settlePromise(s, i, res) ELSE s
          s2 == [s1 EXCEPT !.isAwaitingPromise[i] = FALSE, !.resolveFn[i] = FALSE]
      IN IF s.life[i] = "destroyed"
           THEN s2                             \* nothing rendered is left to tear down
           ELSE LET s3 == timerStop(s2, i)
                IN Logged([s3 EXCEPT !.life[i] = "closed",
                                     !.innerParams[i] = Absent,
                                     !.animated = <<>>,
                                     !.gsCurrent = IF @ = i THEN NoInst ELSE @,
                                     !.pendingRestore = @ \cup {i},
                                     !.gsRestoreFocusTimeout = i], "close", i)

\* rejectPromise(error)
rejectPromise(s, i) ==
  IF ~s.resolveFn[i]
    THEN s
    ELSE
      LET s1 == IF s.result[i] = "pending" THEN settlePromise(s, i, "rejected") ELSE s
      IN [s1 EXCEPT !.isAwaitingPromise[i] = FALSE,
                    !.resolveFn[i] = IF s.life[i] = "destroyed" THEN FALSE ELSE @]


\* ------------------------------------------------- SweetAlert.js
\* dismissWith of swalPromise, bound to its instance
dismissWith(s, instance, dismiss) == close(s, instance, dismiss)

\* Mutant: the timer callback leaves the Timer in the registry's slot.
timerCallback_KeepSlot(s, instance) == dismissWith(s, instance, "timer")

\* Mutant: the timer callback dismisses without the timer reason.
timerCallback_NoReason(s, instance) ==
  [dismissWith(s, instance, "dismissed") EXCEPT !.gsTimeout = NoInst]

\* The callback given to new Timer in setupTimer
timerCallback(s, instance) ==
  [dismissWith(s, instance, "timer") EXCEPT !.gsTimeout = NoInst]

\* Mutant: the Timer is created but not stored in the registry's slot.
setupTimer_NoSlot(s, innerParams, instance) ==
  LET s0 == [s EXCEPT !.animated = <<>>]
  IN IF TruthyNumber(innerParams.timer)
       THEN timerNew(s0, instance, innerParams.timer[1])
       ELSE s0

\* setupTimer(globalState, innerParams, dismissWith)
setupTimer(s, innerParams, instance) ==
  LET s0 == [s EXCEPT !.animated = <<>>]        \* dom.hide(timerProgressBar)
  IN IF TruthyNumber(innerParams.timer)
       THEN LET s1 == [timerNew(s0, instance, innerParams.timer[1]) EXCEPT !.gsTimeout = instance]
            IN IF TruthyBoolean(innerParams.timerProgressBar)
                 THEN [s1 EXCEPT !.pendingProgress[instance] = innerParams.timer[1]]
                 ELSE s1
       ELSE s0

\* The deferred callback of setupTimer: animates the progress bar with the
\* duration of the open that scheduled it.
progressCallback(s, instance) ==
  LET s1 == [s EXCEPT !.pendingProgress[instance] = 0]
  IN IF s.gsTimeout # NoInst /\ s.timer[s.gsTimeout] = "running"
       THEN [s1 EXCEPT !.animated = <<instance, s.pendingProgress[instance]>>]
       ELSE s1

\* populateDomCache(instance): the elements of the rendered dialog
populateDomCache(s) == s.dom

\* swalPromise(instance, domCache, innerParams): registers resolve and reject,
\* wires the buttons, then openPopup, setupTimer, initFocus and the deferred
\* reset of the container's scroll position.
swalPromise(s, instance, domCache, innerParams) ==
  LET s1 == [s EXCEPT !.resolveFn[instance] = TRUE]
      s2 == Logged([s1 EXCEPT !.life[instance] = "open"], "openPopup", instance)
      s3 == setupTimer(s2, innerParams, instance)
      s4 == [s3 EXCEPT !.focus = <<initFocus(domCache, innerParams)>>]
  IN Logged(s4, "scrollReset", instance)

\* Mutant: the eviction does not destroy the old instance.
evict_NoDestroy(s) ==
  LET old == s.gsCurrent
      swalPromiseResolve == s.resolveFn[old]
      awaiting == s.isAwaitingPromise[old]
  IN IF ~awaiting THEN callResolve(s, swalPromiseResolve, old, "dismissed") ELSE s

\* Mutant: the eviction settles whether or not an action is awaited.
evict_AlwaysSettle(s) ==
  LET old == s.gsCurrent
      swalPromiseResolve == s.resolveFn[old]
      s1 == _destroy(s, old)
  IN callResolve(s1, swalPromiseResolve, old, "dismissed")

\* Mutant: the forced settlement carries the reason of a cancel.
evict_WithReason(s) ==
  LET old == s.gsCurrent
      swalPromiseResolve == s.resolveFn[old]
      awaiting == s.isAwaitingPromise[old]
      s1 == _destroy(s, old)
  IN IF ~awaiting THEN callResolve(s1, swalPromiseResolve, old, "cancel") ELSE s1

\* Mutant: the resolve function and the flag are read after the destroy step.
evict_ReadAfterDestroy(s) ==
  LET old == s.gsCurrent
      s1 == Logged(_destroy(s, old), "read", old)
      swalPromiseResolve == s1.resolveFn[old]
      awaiting == s1.isAwaitingPromise[old]
  IN IF ~awaiting THEN callResolve(s1, swalPromiseResolve, old, "dismissed") ELSE s1

\* The eviction of globalState.currentInstance in _main: read, destroy, settle.
evict(s) ==
  LET old == s.gsCurrent
      swalPromiseResolve == s.resolveFn[old]
      awaiting == s.isAwaitingPromise[old]
      s1 == _destroy(Logged(s, "read", old), old)
  IN IF ~awaiting THEN callResolve(s1, swalPromiseResolve, old, "dismissed") ELSE s1

\* Mutant: the previous timer is removed from the slot without being stopped.
clearPreviousTimer_NoStop(s) ==
  IF s.gsTimeout # NoInst THEN [s EXCEPT !.gsTimeout = NoInst] ELSE s

\* "clear the previous timer" in _main
clearPreviousTimer(s) ==
  IF s.gsTimeout # NoInst
    THEN [timerStop(s, s.gsTimeout) EXCEPT !.gsTimeout = NoInst]
    ELSE s

\* Mutant: the scheduled focus restoration is left pending.
clearRestoreFocus_Keep(s) == s

\* clearTimeout(globalState.restoreFocusTimeout)
clearRestoreFocus(s) ==
  IF s.gsRestoreFocusTimeout \in s.pendingRestore
    THEN Logged([s EXCEPT !.pendingRestore = @ \ {s.gsRestoreFocusTimeout}],
                "cancelRestore", s.gsRestoreFocusTimeout)
    ELSE s

\* Mutant: the previous timer is left alone when a new instance opens.
_main_NoTimerClear(s, userParams, mixinParams) ==
  LET s1 == IF s.gsCurrent # NoInst THEN evict(s) ELSE s
  IN IF s1.thrown
       THEN s1
       ELSE LET s2 == Logged([s1 EXCEPT !.gsCurrent = s1.currentInstance], "install", s1.currentInstance)
                prepared == prepareParams(userParams, mixinParams)
                s3 == clearRestoreFocus(s2)
                s4 == [s3 EXCEPT !.innerParams[s3.currentInstance] = <<prepared>>]
            IN swalPromise(s4, s4.currentInstance, populateDomCache(s4), prepared)

\* _main after the eviction: the install, the preparation of the parameters,
\* the clearing of the previous timer and focus restoration, and swalPromise;
\* the instance is the one the module-level currentInstance names.
installAndOpen(s1, userParams, mixinParams) ==
  LET s2 == Logged([s1 EXCEPT !.gsCurrent = s1.currentInstance], "install", s1.currentInstance)
      prepared == prepareParams(userParams, mixinParams)
      s3 == clearRestoreFocus(clearPreviousTimer(s2))
      s4 == [s3 EXCEPT !.innerParams[s3.currentInstance] = <<prepared>>]
  IN swalPromise(s4, s4.currentInstance, populateDomCache(s4), prepared)

\* _main(userParams, mixinParams)
_main(s, userParams, mixinParams) ==
  LET s1 == IF s.gsCurrent # NoInst THEN evict(s) ELSE s
  IN IF s1.thrown THEN s1 ELSE installAndOpen(s1, userParams, mixinParams)

\* this.#promise = this._main(...): the promise that _main returns is the one
\* whose resolve/reject swalPromise registered under currentInstance.
keepPromise(s, this) ==
  IF s.thrown THEN s ELSE [s EXCEPT !.promiseOf[s.currentInstance] = this]

\* Mutant: the constructed instance starts as awaiting an action.
construct_Awaiting(s, this, userParams) ==
  LET s1 == [s EXCEPT !.currentInstance = this, !.isAwaitingPromise[this] = TRUE]
  IN keepPromise(_main(s1, userParams, EmptyObject), this)

\* constructor(...args)
construct(s, this, userParams) ==
  LET s1 == [s EXCEPT !.currentInstance = this, !.isAwaitingPromise[this] = FALSE]
  IN keepPromise(_main(s1, userParams, EmptyObject), this)

\* The eviction when the destroy step of the old instance runs a callback of
\* the application that constructs the instance inner, either before the old
\* instance's entries are disposed or after.
evictWithCallback(s, inner, cbParams, when) ==
  LET old == s.gsCurrent
      swalPromiseResolve == s.resolveFn[old]
      awaiting == s.isAwaitingPromise[old]
      s0 == Logged(s, "read", old)
      s1 == IF when = "beforeDispose"
              THEN LET n == construct(s0, inner, cbParams)
                   IN IF n.thrown THEN n ELSE _destroy(n, old)
              ELSE construct(_destroy(s0, old), inner, cbParams)
  IN IF s1.thrown THEN s1
     ELSE IF ~awaiting THEN callResolve(s1, swalPromiseResolve, old, "dismissed")
     ELSE s1

\* _main(userParams, mixinParams) with such a callback
_mainWithCallback(s, userParams, mixinParams, inner, cbParams, when) ==
  LET s1 == IF s.gsCurrent # NoInst THEN evictWithCallback(s, inner, cbParams, when) ELSE s
  IN IF s1.thrown THEN s1 ELSE installAndOpen(s1, userParams, mixinParams)

\* constructor(...args) with such a callback
constructWithCallback(s, this, userParams, inner, cbParams, when) ==
  LET s1 == [s EXCEPT !.currentInstance = this, !.isAwaitingPromise[this] = FALSE]
  IN keepPromise(_mainWithCallback(s1, userParams, EmptyObject, inner, cbParams, when), this)


\* The methods assigned to SweetAlert.prototype, which the static proxy forwards.
StaticKeys ==
  {"disableButtons", "enableButtons", "getInput", "disableInput", "enableInput",
   "hideLoading", "disableLoading", "showValidationMessage", "resetValidationMessage",
   "close", "closePopup", "closeModal", "closeToast", "rejectPromise", "update", "_destroy"}

\* The methods that close the dialog: close and its variants for a popup, a
\* modal and a toast.
CloseKeys == {"close", "closePopup", "closeModal", "closeToast"}

\* instance[key](...args): the toggles of buttons, input, loader and validation
\* message and the query getInput act on the rendered dialog only.
instanceMethod(s, i, key, args) ==
  IF key \in CloseKeys THEN close(s, i, "confirmed")
  ELSE IF key = "rejectPromise" THEN rejectPromise(s, i)
  ELSE IF key = "update" THEN update(s, i, args)
  ELSE IF key = "_destroy" THEN _destroy(s, i)
  ELSE s

\* SweetAlert[key](...args): forwards to the module-level currentInstance when
\* that variable holds an instance, and returns null otherwise.
staticProxy(s, key, args) ==
  IF s.currentInstance # NoInst
    THEN [instanceMethod(s, s.currentInstance, key, args) EXCEPT !.facade = s.currentInstance]
    ELSE [s EXCEPT !.facade = NoInst]

\* ------------------------------------------------- inputs
TimerOptions == {Absent} \cup {<<d>> : d \in 0..MaxTimer}

\* The option objects given to the constructor in the lifecycle model.
OpenParams ==
  {[EmptyObject EXCEPT !.timer = tv] : tv \in TimerOptions}
  \cup {[EmptyObject EXCEPT !.timer = tv, !.timerProgressBar = <<TRUE>>] : tv \in {Absent, <<MaxTimer>>}}

\* The option objects given to the constructor by a callback.
CallbackParams == {EmptyObject, [EmptyObject EXCEPT !.timer = <<MaxTimer>>]}

\* The callback of the destroy step runs before or after the disposal of the entries.
CallbackPoints == {"beforeDispose", "afterDispose"}

\* The dismissals wired to buttons of the dialog in swalPromise.
ButtonReasons == {"close"}

\* The option objects given to update(): an option set to a value other than
\* its default.
UpdateParams == {[EmptyObject EXCEPT !.a = <<2>>]}

\* ------------------------------------------------- initial state
LifecycleInit ==
  /\ currentInstance = NoInst
  /\ gsCurrent = NoInst
  /\ gsTimeout = NoInst
  /\ gsRestoreFocusTimeout = NoInst
  /\ life = [i \in InstIds |-> "new"]
  /\ isAwaitingPromise = [i \in InstIds |-> FALSE]
  /\ resolveFn = [i \in InstIds |-> FALSE]
  /\ result = [i \in InstIds |-> "pending"]
  /\ promiseOf = [i \in InstIds |-> i]
  /\ settleCalls = [i \in InstIds |-> 0]
  /\ timer = [i \in InstIds |-> "none"]
  /\ remaining = [i \in InstIds |-> 0]
  /\ fireCount = [i \in InstIds |-> 0]
  /\ privInnerParams = [i \in InstIds |-> Absent]
  /\ pendingRestore = {}
  /\ pendingProgress = [i \in InstIds |-> 0]
  /\ animated = <<>>
  /\ log = <<>>
  /\ nOpened = 0
  /\ due = [i \in InstIds |-> 0]
  /\ early = [i \in InstIds |-> FALSE]
  /\ quiet = NoInst
  /\ streak = 0
  /\ facade = NoCall

\* The application gives no focus option, and the dialog shows its confirm button.
FocusIdle ==
  /\ fParams = EmptyObject
  /\ fDom = [autofocus |-> <<>>, denyButton |-> FALSE, cancelButton |-> FALSE,
             confirmButton |-> TRUE, focusable |-> TRUE, active |-> FALSE]
  /\ fOut = Absent

Init ==
  /\ LifecycleInit
  /\ pUser = EmptyObject
  /\ pMixin = EmptyObject
  /\ pOut = Absent
  /\ FocusIdle

\* ------------------------------------------------- actions
\* The time still to elapse is tracked for the instance opened last, while only
\* time has passed since and its Timer is running.
DueAfter ==
  [i \in InstIds |-> IF quiet' = i /\ timer'[i] \in {"running", "paused"} THEN due[i] ELSE 0]

\* The argument of the constructor: the options of the open together with the
\* focus options of the application.
WithFocus(userParams) == ObjectAssign(Keys, userParams, fParams)

\* new SweetAlert(userParams)
OpenWith(userParams) ==
  /\ nOpened < MaxInst
  /\ Commit(construct(St, nOpened + 1, WithFocus(userParams)))
  /\ log' = construct(St, nOpened + 1, WithFocus(userParams)).log
  /\ due' = [i \in InstIds |->
               IF i = nOpened + 1 /\ userParams.timer # Absent THEN userParams.timer[1] ELSE 0]
  /\ nOpened' = nOpened + 1
  /\ quiet' = nOpened + 1
  /\ streak' = streak + 1
  /\ early' = early
  /\ UNCHANGED <<prepVars, focusVars>>

Open == \E userParams \in OpenParams : OpenWith(userParams)

\* One unit of time passes.
Tick ==
  /\ \A i \in InstIds : pendingProgress[i] = 0     \* zero-delay callbacks run first
  /\ \E i \in InstIds : (timer[i] = "running" /\ remaining[i] > 0) \/ due[i] > 0
  /\ remaining' = [i \in InstIds |->
                     IF timer[i] = "running" /\ remaining[i] > 0 THEN remaining[i] - 1 ELSE remaining[i]]
  /\ due' = [i \in InstIds |-> IF due[i] > 0 THEN due[i] - 1 ELSE 0]
  /\ early' = early
  /\ streak' = 0
  /\ facade' = NoCall
  /\ UNCHANGED <<log, currentInstance, gsCurrent, gsTimeout, gsRestoreFocusTimeout, life,
                 isAwaitingPromise, resolveFn, result, promiseOf, settleCalls, timer, fireCount,
                 privInnerParams, pendingRestore, pendingProgress, animated, nOpened, quiet, fOut>>
  /\ UNCHANGED <<prepVars, focusVars>>

\* A running Timer expires: it becomes fired and runs its callback.
TimerFire ==
  /\ \E t \in InstIds :
       /\ timer[t] = "running"
       /\ remaining[t] = 0
       /\ Commit(timerCallback(Logged([St EXCEPT !.timer[t] = "fired",
                                                 !.fireCount[t] = IF @ < 2 THEN @ + 1 ELSE @],
                                      "fire", t), t))
       /\ early' = [early EXCEPT ![t] = @ \/ due[t] > 0]
  /\ UNCHANGED <<nOpened, log, quiet>>
  /\ streak' = 0
  /\ due' = DueAfter
  /\ UNCHANGED <<prepVars, focusVars>>

\* Timer.pause() on the registry's timer
PauseTimer ==
  /\ gsTimeout # NoInst
  /\ timer[gsTimeout] = "running"
  /\ Commit([St EXCEPT !.timer[gsTimeout] = "paused"])
  /\ quiet' = NoInst
  /\ UNCHANGED <<nOpened, log, early>>
  /\ streak' = 0
  /\ due' = DueAfter
  /\ UNCHANGED <<prepVars, focusVars>>

\* Timer.resume() on the registry's timer
ResumeTimer ==
  /\ gsTimeout # NoInst
  /\ timer[gsTimeout] = "paused"
  /\ Commit([St EXCEPT !.timer[gsTimeout] = "running"])
  /\ quiet' = NoInst
  /\ UNCHANGED <<nOpened, log, early>>
  /\ streak' = 0
  /\ due' = DueAfter
  /\ UNCHANGED <<prepVars, focusVars>>

\* The close button of the dialog is clicked: its onclick handler calls
\* dismissWith(DismissReason.close), whether or not an action is awaited.
ButtonDismiss ==
  /\ gsCurrent # NoInst
  /\ life[gsCurrent] = "open"
  /\ \E reason \in ButtonReasons : Commit(dismissWith(St, gsCurrent, reason))
  /\ quiet' = NoInst
  /\ UNCHANGED <<nOpened, log, early>>
  /\ streak' = 0
  /\ due' = DueAfter
  /\ UNCHANGED <<prepVars, focusVars>>

\* The confirm button is clicked and no caller action is awaited.
ConfirmClick ==
  /\ gsCurrent # NoInst
  /\ life[gsCurrent] = "open"
  /\ ~isAwaitingPromise[gsCurrent]
  /\ Commit(close(St, gsCurrent, "confirmed"))
  /\ quiet' = NoInst
  /\ UNCHANGED <<nOpened, log, early>>
  /\ streak' = 0
  /\ due' = DueAfter
  /\ UNCHANGED <<prepVars, focusVars>>

\* The confirm button is clicked and a caller action starts that is awaited.
ConfirmAsync ==
  /\ gsCurrent # NoInst
  /\ life[gsCurrent] = "open"
  /\ ~isAwaitingPromise[gsCurrent]
  /\ Commit([St EXCEPT !.isAwaitingPromise[gsCurrent] = TRUE])
  /\ quiet' = NoInst
  /\ UNCHANGED <<nOpened, log, early>>
  /\ streak' = 0
  /\ due' = DueAfter
  /\ UNCHANGED <<prepVars, focusVars>>

\* The awaited action of an instance completes: the instance is closed as confirmed.
ActionComplete ==
  /\ \E i \in InstIds :
       /\ isAwaitingPromise[i]
       /\ Commit(close(St, i, "confirmed"))
  /\ quiet' = NoInst
  /\ UNCHANGED <<nOpened, log, early>>
  /\ streak' = 0
  /\ due' = DueAfter
  /\ UNCHANGED <<prepVars, focusVars>>

\* The awaited action of an instance throws: the result is rejected.
ActionFault ==
  /\ \E i \in InstIds :
       /\ isAwaitingPromise[i]
       /\ Commit(rejectPromise(St, i))
  /\ quiet' = NoInst
  /\ UNCHANGED <<nOpened, log, early>>
  /\ streak' = 0
  /\ due' = DueAfter
  /\ UNCHANGED <<prepVars, focusVars>>

\* The application calls close() on an instance it holds.
ExplicitClose ==
  /\ \E i \in 1..nOpened : Commit(close(St, i, "confirmed"))
  /\ quiet' = NoInst
  /\ UNCHANGED <<nOpened, log, early>>
  /\ streak' = 0
  /\ due' = DueAfter
  /\ UNCHANGED <<prepVars, focusVars>>

\* The application calls rejectPromise() on an instance it holds.
ExplicitReject ==
  /\ \E i \in 1..nOpened : Commit(rejectPromise(St, i))
  /\ quiet' = NoInst
  /\ UNCHANGED <<nOpened, log, early>>
  /\ streak' = 0
  /\ due' = DueAfter
  /\ UNCHANGED <<prepVars, focusVars>>

\* The application calls _destroy() on an instance it holds.
ExplicitDestroy ==
  /\ \E i \in 1..nOpened : Commit(_destroy(St, i))
  /\ quiet' = NoInst
  /\ UNCHANGED <<nOpened, log, early>>
  /\ streak' = 0
  /\ due' = DueAfter
  /\ UNCHANGED <<prepVars, focusVars>>

\* The application calls update(params) on an instance it holds.
ExplicitUpdate ==
  /\ \E i \in 1..nOpened, params \in UpdateParams : Commit(update(St, i, params))
  /\ quiet' = NoInst
  /\ UNCHANGED <<nOpened, log, early>>
  /\ streak' = 0
  /\ due' = DueAfter
  /\ UNCHANGED <<prepVars, focusVars>>

\* A scheduled focus restoration runs.
RestoreFocusRun ==
  /\ \E h \in pendingRestore : Commit([St EXCEPT !.pendingRestore = @ \ {h}])
  /\ UNCHANGED <<nOpened, log, early, quiet>>
  /\ streak' = 0
  /\ due' = DueAfter
  /\ UNCHANGED <<prepVars, focusVars>>

\* A deferred progress-bar callback runs.
ProgressRun ==
  /\ \E i \in InstIds :
       /\ pendingProgress[i] > 0
       /\ Commit(progressCallback(St, i))
  /\ UNCHANGED <<nOpened, log, early, quiet>>
  /\ streak' = 0
  /\ due' = DueAfter
  /\ UNCHANGED <<prepVars, focusVars>>

\* The application calls an instance method through the static proxy.
StaticCall ==
  /\ \E key \in StaticKeys, args \in UpdateParams : Commit(staticProxy(St, key, args))
  /\ quiet' = NoInst
  /\ UNCHANGED <<nOpened, log, early>>
  /\ streak' = 0
  /\ due' = DueAfter
  /\ UNCHANGED <<prepVars, focusVars>>

Next ==
  \/ Open
  \/ Tick
  \/ TimerFire
  \/ PauseTimer
  \/ ResumeTimer
  \/ ButtonDismiss
  \/ ConfirmClick
  \/ ConfirmAsync
  \/ ActionComplete
  \/ ActionFault
  \/ ExplicitClose
  \/ ExplicitReject
  \/ ExplicitDestroy
  \/ ExplicitUpdate
  \/ RestoreFocusRun
  \/ ProgressRun
  \/ StaticCall

Spec == Init /\ [][Next]_vars


\* new SweetAlert(userParams) while an instance is current whose destroy step
\* runs a callback that calls new SweetAlert(cbParams).
OpenWithCallback ==
  /\ gsCurrent # NoInst
  /\ nOpened + 2 <= MaxInst + 1
  /\ \E userParams \in OpenParams, cbParams \in CallbackParams, when \in CallbackPoints :
       /\ Commit(constructWithCallback(St, nOpened + 1, WithFocus(userParams), nOpened + 2, cbParams, when))
       /\ log' = constructWithCallback(St, nOpened + 1, WithFocus(userParams), nOpened + 2, cbParams, when).log
  /\ nOpened' = nOpened + 2
  /\ quiet' = NoInst
  /\ streak' = 0
  /\ due' = [i \in InstIds |-> 0]
  /\ early' = early
  /\ UNCHANGED <<prepVars, focusVars>>

\* The lifecycle with callbacks of the application that open an instance
\* from inside an open call.
ReentrantSpec == Init /\ [][Next \/ OpenWithCallback]_vars

\* Timer expiry, deferred callbacks and the passing of time are scheduled by the runtime.
TimerFairSpec == Spec /\ WF_vars(Tick) /\ WF_vars(TimerFire) /\ WF_vars(ProgressRun)

\* The pending events eventually happen: an awaited action ends, and the dialog
\* that is open and awaits no action is answered.
LiveSpec ==
  /\ Spec
  /\ WF_vars(ActionComplete \/ ActionFault)
  /\ WF_vars(ButtonDismiss \/ ConfirmClick)

\* ------------------------------------------------- prepareParams on its own
MixinConfigs ==
  {[EmptyObject EXCEPT !.a = a, !.b = b, !.animation = an, !.showClass = sc] :
     a \in {Absent, <<2>>}, b \in {Absent, <<2>>}, an \in {Absent, <<"false">>},
     sc \in {Absent, <<[EmptyClass EXCEPT !.popup = <<"mixin-popup">>]>>}}

TemplateConfigs ==
  {[EmptyObject EXCEPT !.b = b, !.c = c, !.animation = an, !.showClass = sc] :
     b \in {Absent, <<3>>}, c \in {Absent, <<3>>}, an \in {Absent, <<"false">>},
     sc \in {Absent, <<[EmptyClass EXCEPT !.icon = <<"template-icon">>]>>}}

UserConfigs ==
  {[EmptyObject EXCEPT !.a = a, !.b = b, !.c = c, !.animation = an, !.showClass = sc,
                       !.hideClass = hc, !.template = tp] :
     a \in {Absent, <<9>>}, b \in {Absent, <<9>>}, c \in {Absent, <<9>>},
     an \in {Absent, <<"false">>, <<"true">>, <<"0">>},
     sc \in {Absent, <<[EmptyClass EXCEPT !.popup = <<"user-popup">>]>>,
             <<[EmptyClass EXCEPT !.backdrop = <<"user-backdrop">>, !.icon = <<"user-icon">>]>>},
     hc \in {Absent, <<[EmptyClass EXCEPT !.popup = <<"user-hide">>]>>},
     tp \in {Absent} \cup {<<tc>> : tc \in TemplateConfigs}}

PrepInit ==
  /\ LifecycleInit
  /\ pUser \in UserConfigs
  /\ pMixin \in MixinConfigs
  /\ pOut = Absent
  /\ FocusIdle

\* prepareParams(userParams, mixinParams) is called.
Prepare ==
  /\ pOut = Absent
  /\ pOut' = <<prepareParams(pUser, pMixin)>>
  /\ UNCHANGED <<pUser, pMixin>>
  /\ UNCHANGED <<lifecycleVars, focusVars>>

PrepSpec == PrepInit /\ [][Prepare]_vars

\* ------------------------------------------------- initFocus on its own
MaxAutofocus == 2

FocusConfigs ==
  {[EmptyObject EXCEPT !.toast = <<t>>, !.allowEnterKey = <<ae>>, !.focusDeny = <<fd>>,
                       !.focusCancel = <<fc>>, !.focusConfirm = <<ff>>] :
     t \in BOOLEAN,
     ae \in {<<"value", TRUE>>, <<"value", FALSE>>, <<"function", TRUE>>, <<"function", FALSE>>},
     fd \in BOOLEAN, fc \in BOOLEAN, ff \in BOOLEAN}

\* A visible button is a focusable element of the dialog.
FocusDoms ==
  {d \in [autofocus : UNION {[1..n -> BOOLEAN] : n \in 0..MaxAutofocus},
          denyButton : BOOLEAN, cancelButton : BOOLEAN, confirmButton : BOOLEAN,
          focusable : BOOLEAN, active : BOOLEAN] :
     (d.denyButton \/ d.cancelButton \/ d.confirmButton) => d.focusable}

FocusInit ==
  /\ LifecycleInit
  /\ pUser = EmptyObject
  /\ pMixin = EmptyObject
  /\ pOut = Absent
  /\ fParams \in FocusConfigs
  /\ fDom \in FocusDoms
  /\ fOut = Absent

\* The first dialog is opened, with the focus options and nothing else.
OpenFirst == nOpened = 0 /\ OpenWith(EmptyObject)

FocusSpec == FocusInit /\ [][OpenFirst]_vars


\* ------------------------------------------------- properties of prepareParams
\* The value of key k in the highest-precedence source that defines it:
\* caller, then declarative (template), then mixin, then the defaults.
HighestPrecedence(k) ==
  LET declarative == getTemplateParams(pUser)
  IN IF pUser[k] # Absent THEN pUser[k]
     ELSE IF declarative[k] # Absent THEN declarative[k]
     ELSE IF pMixin[k] # Absent THEN pMixin[k]
     ELSE defaultParams[k]

\* The supplied class sub-object merged key by key over the default one.
KeyByKey(default, supplied) ==
  [ck \in ClassKeys |->
     IF supplied # Absent /\ supplied[1][ck] # Absent THEN supplied[1][ck] ELSE default[ck]]

\* C9 as stated: for every key, the effective configuration holds the value of
\* the highest-precedence source that defines the key.
C9_EveryKey ==
  pOut # Absent => \A k \in Keys : pOut[1][k] = HighestPrecedence(k)

\* C9, amended: for every key other than showClass and hideClass, the effective
\* configuration holds the value of the highest-precedence source that defines
\* the key (defaults < mixin < declarative < caller); with mixin {b:2},
\* declarative {c:3} and caller {a:9} over defaults {a:1,b:1} it is {a:9,b:2,c:3}.
C9_MergePrecedence ==
  pOut # Absent => \A k \in Keys \ {"showClass", "hideClass"} : pOut[1][k] = HighestPrecedence(k)

\* The example of the specification has been prepared.
C9_Witness ==
  /\ pOut # Absent
  /\ pUser.a = <<9>> /\ pUser.b = Absent /\ pUser.c = Absent
  /\ pUser.template # Absent
  /\ pUser.template[1].c = <<3>> /\ pUser.template[1].b = Absent
  /\ pMixin.b = <<2>> /\ pMixin.a = Absent
  /\ pOut[1].a = <<9>> /\ pOut[1].b = <<2>> /\ pOut[1].c = <<3>>

\* C10: when the merged animation flag is false, showClass is exactly the one
\* backdrop no-animation class and hideClass is empty, whatever was supplied;
\* otherwise showClass and hideClass are the supplied sub-object merged key by
\* key over the default sub-object.
C10_AnimationCollapse ==
  pOut # Absent =>
    IF HighestPrecedence("animation") = <<"false">>
      THEN /\ pOut[1].showClass =
                <<[popup |-> Absent, backdrop |-> <<"swal2-noanimation">>, icon |-> Absent]>>
           /\ pOut[1].hideClass = <<[popup |-> Absent, backdrop |-> Absent, icon |-> Absent]>>
      ELSE /\ pOut[1].showClass = <<KeyByKey(defaultShowClass, HighestPrecedence("showClass"))>>
           /\ pOut[1].hideClass = <<KeyByKey(defaultHideClass, HighestPrecedence("hideClass"))>>

\* A configuration with the flag false and caller-supplied classes has been prepared.
C10_Witness ==
  /\ pOut # Absent
  /\ HighestPrecedence("animation") = <<"false">>
  /\ pUser.showClass # Absent
  /\ pUser.hideClass # Absent
  /\ pOut[1].hideClass = <<EmptyClass>>


\* ------------------------------------------------- properties of the lifecycle
\* Position of the first occurrence of entry e in the sequence l, 0 if none.
IndexOf(l, e) ==
  IF \E j \in 1..Len(l) : l[j] = e
    THEN CHOOSE j \in 1..Len(l) : l[j] = e /\ \A k \in 1..(j - 1) : l[k] # e
    ELSE 0

\* Entry x occurs in l, and before entry y.
Before(l, x, y) == IndexOf(l, x) > 0 /\ IndexOf(l, x) < IndexOf(l, y)

\* This step is an open call made while instance A is the registry's current instance.
OpenOver(A) == nOpened' = nOpened + 1 /\ gsCurrent = A

\* C1 as stated: an open over a current instance A that awaits no action leaves
\* A's result settled with {isDismissed: true}, settled before the install.
C1_EvictionSettles ==
  [][\A A \in InstIds :
       (OpenOver(A) /\ ~isAwaitingPromise[A]) =>
          /\ result'[A] = "dismissed"
          /\ Before(log', <<"settle", A>>, <<"install", nOpened'>>)]_vars

\* C2 as stated: an open over a current instance A that awaits an action
\* destroys A and leaves A's result unsettled, with no call of its settle
\* operation.
C2_AwaitingNotSettled ==
  [][\A A \in InstIds :
       (OpenOver(A) /\ isAwaitingPromise[A]) =>
          /\ life'[A] = "destroyed"
          /\ result'[A] = "pending"
          /\ settleCalls'[A] = settleCalls[A]
          /\ IndexOf(log', <<"settle", A>>) = 0]_vars

\* C2, amended: an open over a current instance A that awaits an action
\* destroys A and makes no call of A's settle operation, so that A's result is
\* after the open what it was before: unsettled, unless A had been rejected
\* before its action started.
C2_EvictionForcesNothing ==
  [][\A A \in InstIds :
       (OpenOver(A) /\ isAwaitingPromise[A]) =>
          /\ life'[A] = "destroyed"
          /\ result'[A] = result[A]
          /\ result[A] \in {"pending", "rejected"}
          /\ settleCalls'[A] = settleCalls[A]
          /\ IndexOf(log', <<"settle", A>>) = 0]_vars

\* An awaiting instance has been evicted and is still pending.
C2_Witness ==
  \E A \in InstIds :
    /\ life[A] = "destroyed"
    /\ isAwaitingPromise[A]
    /\ result[A] = "pending"
    /\ IndexOf(log, <<"destroy", A>>) > 0
    /\ gsCurrent = nOpened /\ gsCurrent # A

\* C3: at most one instance is live, it is the registry's current instance, and
\* an open destroys the previous current instance before it installs the new one.
C3_SingleLive ==
  /\ \A i \in InstIds : life[i] = "open" => gsCurrent = i
  /\ Cardinality({i \in InstIds : life[i] = "open"}) <= 1
  /\ \A i \in InstIds :
       IndexOf(log, <<"read", i>>) > 0 =>
         /\ life[i] # "open"
         /\ \E j \in InstIds : Before(log, <<"destroy", i>>, <<"install", j>>)

\* An instance is live that was installed over a destroyed one.
C3_Witness ==
  /\ gsCurrent = 2
  /\ life[2] = "open"
  /\ life[1] = "destroyed"
  /\ Before(log, <<"destroy", 1>>, <<"install", 2>>)

\* C4 as stated: the settle operation of an instance's result handle is called
\* at most once.
C4_SettleCalledOnce == \A i \in InstIds : settleCalls[i] <= 1


\* Instance i was opened with a truthy timer option and is still being shown.
HasTimerOption(i) ==
  privInnerParams[i] # Absent /\ TruthyNumber(privInnerParams[i][1].timer)

\* The timer of instance i has run its callback once, not early, and left the
\* result dismissed by the timer and the registry's timer slot empty.
TimerDismissed(i) ==
  /\ fireCount[i] = 1
  /\ ~early[i]
  /\ result[i] = "timer"
  /\ gsTimeout = NoInst

\* C5: an instance opened with a timer d > 0 and met by no other event has its
\* timer callback run exactly once, not before d has elapsed; its result is then
\* dismissed with reason timer and the registry's timer slot is empty.
C5_TimerDismisses ==
  /\ [](\A i \in InstIds : (quiet = i /\ fireCount[i] >= 1) => TimerDismissed(i))
  /\ [](\A i \in InstIds : (quiet = i /\ HasTimerOption(i) /\ due[i] > 0) => fireCount[i] = 0)
  /\ \A i \in InstIds :
       (quiet = i /\ HasTimerOption(i)) ~> (quiet # i \/ TimerDismissed(i))

\* The timer of the instance opened last has dismissed it, with nothing else happening.
C5_Witness ==
  \E i \in InstIds : quiet = i /\ TimerDismissed(i) /\ life[i] = "closed"

\* C6: a Timer that is running or paused is the one in the registry's timer
\* slot, so at most one is live; an open that arms a Timer has stopped the
\* previously armed one first.
C6_OneLiveTimer ==
  /\ \A i \in InstIds : timer[i] \in {"running", "paused"} => gsTimeout = i
  /\ \A i, j \in InstIds :
       (IndexOf(log, <<"stop", i>>) > 0 /\ IndexOf(log, <<"arm", j>>) > 0) =>
          Before(log, <<"stop", i>>, <<"arm", j>>)

\* The last open stopped the timer of the first instance and armed its own.
C6_Witness ==
  /\ timer[1] = "stopped"
  /\ timer[2] \in {"running", "paused"}
  /\ gsTimeout = 2
  /\ Before(log, <<"stop", 1>>, <<"arm", 2>>)

\* The Timer of the instance can no longer run its callback.
TimerOver(i) == timer[i] \notin {"running", "paused"}

C8_EventuallySettled ==
  /\ \A i \in InstIds : (life[i] # "new") ~> (result[i] # "pending")
  /\ [][\A i \in InstIds : result[i] # "pending" => result'[i] = result[i]]_vars

\* ------------------------------------------------- properties of initFocus
\* The effective configuration of a dialog opened with the focus options.
FocusParams == prepareParams(fParams, EmptyObject)
FocusToast == TruthyBoolean(FocusParams.toast)
FocusAllowEnterKey == FocusParams.allowEnterKey[1][2]

\* initFocus has run with toast not set and allowEnterKey evaluating to true.
FocusChainRuns == fOut # Absent /\ ~FocusToast /\ FocusAllowEnterKey

SomeAutofocusVisible == \E k \in DOMAIN fDom.autofocus : fDom.autofocus[k]
DenyMatches == TruthyBoolean(FocusParams.focusDeny) /\ fDom.denyButton
CancelMatches == TruthyBoolean(FocusParams.focusCancel) /\ fDom.cancelButton
ConfirmMatches == TruthyBoolean(FocusParams.focusConfirm) /\ fDom.confirmButton

\* The first match of the chain autofocus, deny, cancel, confirm, first focusable.
ChainFirstMatch ==
  IF SomeAutofocusVisible
    THEN <<"autofocus", CHOOSE k \in DOMAIN fDom.autofocus :
                          fDom.autofocus[k] /\ \A j \in 1..(k - 1) : ~fDom.autofocus[j]>>
  ELSE IF DenyMatches THEN <<"denyButton", 0>>
  ELSE IF CancelMatches THEN <<"cancelButton", 0>>
  ELSE IF ConfirmMatches THEN <<"confirmButton", 0>>
  ELSE <<"focusable", 1>>

\* C11: with toast not set and allowEnterKey evaluating to true, initFocus
\* focuses exactly the first match of the chain: first visible [autofocus]
\* element, else deny (focusDeny and visible), else cancel (focusCancel and
\* visible), else confirm (focusConfirm and visible), else the first focusable
\* element if there is one; it focuses nothing else and blurs nothing.
C11_FocusChain ==
  FocusChainRuns =>
    /\ ~fOut[1].blurred
    /\ fOut[1].calls =
         IF ChainFirstMatch = <<"focusable", 1>> /\ ~fDom.focusable
           THEN <<>>
           ELSE <<ChainFirstMatch>>

\* Deny and confirm are both named and visible, and deny got the focus.
C11_Witness ==
  /\ FocusChainRuns
  /\ ~SomeAutofocusVisible
  /\ DenyMatches
  /\ ConfirmMatches
  /\ fOut[1].calls = << <<"denyButton", 0>> >>

\* C12 as stated (the order of the doc comment of initFocus): with toast not
\* true and no [autofocus] element, the confirm button is focused if
\* focusConfirm is true and it is visible; only otherwise deny, and then cancel.
C12_DocCommentOrder ==
  (fOut # Absent /\ ~FocusToast /\ fDom.autofocus = <<>>) =>
    IF ConfirmMatches THEN fOut[1].calls = << <<"confirmButton", 0>> >>
    ELSE IF DenyMatches THEN fOut[1].calls = << <<"denyButton", 0>> >>
    ELSE IF CancelMatches THEN fOut[1].calls = << <<"cancelButton", 0>> >>
    ELSE TRUE

\* C13: the early exits of initFocus come before every later step: with toast
\* set nothing is focused and nothing is blurred; otherwise, with allowEnterKey
\* (value or predicate result) false, the active element is blurred and no
\* element of the dialog is focused, whatever the dialog shows.
C13_EarlyExits ==
  fOut # Absent =>
    /\ FocusToast => (fOut[1].calls = <<>> /\ ~fOut[1].blurred)
    /\ (~FocusToast /\ ~FocusAllowEnterKey)
         => (fOut[1].calls = <<>> /\ fOut[1].blurred = fDom.active)

\* allowEnterKey is a predicate returning false while a visible [autofocus]
\* element exists and focusDeny names the visible deny button: only the blur happened.
C13_Witness ==
  /\ fOut # Absent
  /\ ~FocusToast
  /\ fParams.allowEnterKey = << <<"function", FALSE>> >>
  /\ SomeAutofocusVisible
  /\ DenyMatches
  /\ fDom.active
  /\ fOut[1].blurred
  /\ fOut[1].calls = <<>>

\* ------------------------------------------------- the static proxy
\* C14: a call of a static proxy method forwards to the instance that is open
\* at the time of the call, and returns null, invoking no instance method, when
\* no instance is open, also after the instance opened last has been closed.
C14_FacadeForwardsToOpen ==
  [][facade' # NoCall =>
       facade' = IF gsCurrent # NoInst /\ life[gsCurrent] = "open" THEN gsCurrent ELSE NoInst]_vars

\* ------------------------------------------------- reentrant opens
\* The open call of the step returned: its last step is that of swalPromise.
OpenReturned ==
  /\ nOpened' # nOpened
  /\ log' # <<>>
  /\ log'[Len(log')][1] = "scrollReset"

\* C15: when an open call returns, the registry's current instance, the stored
\* effective configuration (kept under the same key as the DOM cache entry) and
\* the registered resolve/reject functions belong to the instance that the call
\* constructed, also when a callback run by the eviction opened another instance.
C15_OpenInstallsOwnInstance ==
  [][OpenReturned =>
       /\ gsCurrent' = nOpened + 1
       /\ privInnerParams'[nOpened + 1] # Absent
       /\ resolveFn'[nOpened + 1]
       /\ \A j \in InstIds : resolveFn'[j] /\ promiseOf'[j] = nOpened + 1 => j = nOpened + 1]_vars

\* ------------------------------------------------- timers across opens
\* C16: when the open of instance B returns, the Timer of every earlier
\* instance is stopped, and the registry's timer slot holds a Timer exactly when
\* B's effective timer option is truthy, and then the one created for B; a Timer
\* of an instance never fires once a later instance has been opened, and B's
\* Timer callback dismisses B and leaves every other instance as it was.
C16_TimerReplacedOnOpen ==
  /\ [][nOpened' = nOpened + 1 =>
          /\ \A A \in InstIds : (A # nOpened' /\ timer[A] \in {"running", "paused"}) => timer'[A] = "stopped"
          /\ \A A \in InstIds : A # nOpened' => timer'[A] \notin {"running", "paused"}
          /\ gsTimeout' = IF TruthyNumber(privInnerParams'[nOpened'][1].timer) THEN nOpened' ELSE NoInst
          /\ gsTimeout' # NoInst => timer'[gsTimeout'] = "running"]_vars
  /\ [][\A A \in InstIds : A < nOpened => fireCount'[A] = fireCount[A]]_vars
  /\ [][\A B \in InstIds :
          fireCount'[B] # fireCount[B] =>
             /\ life[B] = "open" =>
                  /\ result'[B] = IF result[B] = "pending" THEN "timer" ELSE result[B]
                  /\ life'[B] = "closed"
             /\ \A A \in InstIds : A # B => (result'[A] = result[A] /\ life'[A] = life[A])]_vars

\* The first instance had a Timer that the open of the second stopped before it
\* fired; the Timer of the second has fired and dismissed the second.
C16_Witness ==
  /\ timer[1] = "stopped"
  /\ fireCount[1] = 0
  /\ result[1] = "dismissed"
  /\ fireCount[2] = 1
  /\ result[2] = "timer"
  /\ life[2] = "closed"
  /\ gsTimeout = NoInst

\* ------------------------------------------------- order inside the eviction
\* C17: the eviction of A reads A's resolve function and isAwaitingPromise
\* before A is destroyed and settles after the destruction: whether it settles
\* is decided by the flag as it was before the destroy step, and the function
\* called is the one A had registered before, whatever the destroy step disposed.
C17_ReadDestroySettle ==
  [][\A A \in InstIds :
       OpenOver(A) =>
          /\ Before(log', <<"read", A>>, <<"destroy", A>>)
          /\ (IndexOf(log', <<"settle", A>>) > 0) = ~isAwaitingPromise[A]
          /\ ~isAwaitingPromise[A] =>
               /\ Before(log', <<"destroy", A>>, <<"settle", A>>)
               /\ settleCalls'[A] = IF settleCalls[A] < 2 THEN settleCalls[A] + 1 ELSE 2
               /\ \A j \in InstIds : j # A => settleCalls'[j] = settleCalls[j]]_vars

\* The last open read, destroyed and settled the first instance in this order;
\* the destroy step had disposed of the registered function before the settle.
C17_Witness ==
  /\ Before(log, <<"read", 1>>, <<"destroy", 1>>)
  /\ Before(log, <<"destroy", 1>>, <<"settle", 1>>)
  /\ life[1] = "destroyed"
  /\ ~resolveFn[1]
  /\ settleCalls[1] = 1

\* ------------------------------------------------- focus restoration
\* C18: an open cancels the focus restoration that an earlier close scheduled
\* and that has not run: none is pending when the open returns, at most one is
\* pending at any time, and a restoration that runs was scheduled by the close
\* of the instance opened last, so it takes the focus from no newer instance.
C18_RestoreCancelledOnOpen ==
  /\ [](Cardinality(pendingRestore) <= 1)
  /\ [][nOpened' # nOpened => pendingRestore' = {}]_vars
  /\ [][\A h \in pendingRestore :
          (h \notin pendingRestore' /\ nOpened' = nOpened) => (h = nOpened /\ gsCurrent = NoInst)]_vars

\* The last open cancelled the restoration that the close of the first instance
\* had scheduled, and the second instance is open.
C18_Witness ==
  /\ IndexOf(log, <<"cancelRestore", 1>>) > 0
  /\ life[1] = "closed"
  /\ life[2] = "open"
  /\ gsCurrent = 2
  /\ pendingRestore = {}

\* ------------------------------------------------- consecutive opens
\* C19: a constructed instance has isAwaitingPromise false; after n >= 1 open
\* calls in a row, each of the first n-1 instances of the row has been settled
\* exactly once, with {isDismissed: true}, and the n-th is the registry's
\* current instance, with its result pending.
C19_ConsecutiveOpens ==
  streak >= 1 =>
    /\ \A i \in InstIds :
         (nOpened - streak < i /\ i < nOpened) => (result[i] = "dismissed" /\ settleCalls[i] = 1)
    /\ gsCurrent = nOpened
    /\ ~isAwaitingPromise[nOpened]
    /\ result[nOpened] = "pending"
    /\ settleCalls[nOpened] = 0

\* Two instances were opened in a row: the first is settled as dismissed, once.
C19_Witness ==
  /\ streak = 2
  /\ nOpened = 2
  /\ result[1] = "dismissed"
  /\ settleCalls[1] = 1
  /\ gsCurrent = 2
  /\ result[2] = "pending"

\* ------------------------------------------------- the deferred progress-bar callback
\* C20: the deferred callback that an open of instance i scheduled starts the
\* progress-bar animation, with i's duration, only while the Timer armed by that
\* open is the one in the registry's slot and is running; not after i was closed,
\* its Timer stopped or unset, or i replaced by a later open.
C20_ProgressOnlyForOwnTimer ==
  [][\A i \in InstIds :
       (/\ pendingProgress[i] > 0
        /\ pendingProgress'[i] = 0
        /\ animated' = <<i, pendingProgress[i]>>)
         => (gsTimeout = i /\ timer[i] = "running" /\ gsCurrent = i)]_vars

====
